---- MODULE Spec2Model ----
(***************************************************************************)
(* Model of the Creative Agent prompt chain (src/assignment).              *)
(*                                                                         *)
(* Representation of Python values.                                        *)
(*   str        a sequence of one-character strings, <<"a", "b">>          *)
(*   None       <<"None">>                                                 *)
(*   JSON value a tuple whose first element is the Python type:            *)
(*                <<"dict", items>>   items: sequence of <<key, value>>,   *)
(*                                    in insertion order, keys unique      *)
(*                <<"list", values>>  <<"str", chars>>   <<"int", n>>      *)
(*                <<"bool", b>>       <<"None">>                           *)
(*                <<"float", n>>      a float whose value is the integer n *)
(*                <<"float", m, x>>   the float that repr() writes as the  *)
(*                                    decimal m * 10^x, m no multiple of   *)
(*                                    10; x < 0, or x > 0 for an integer   *)
(*                                    from 2^31 on                         *)
(*                <<"NaN">>   <<"Infinity">>   <<"-Infinity">>             *)
(*   outcome    <<"return", value>> or <<"raise", exception class>>        *)
(*                                                                         *)
(* Texts are over Alphabet. It leaves out the backslash and the control    *)
(* characters other than newline, so json_loads below is json.loads on     *)
(* every text the model builds. Integers are those of TLC: a numeral of    *)
(* more digits than 2^31 - 1 has is one the model cannot evaluate. 0.0 and *)
(* -0.0, which are equal in Python, are both <<"float", 0>>.               *)
(***************************************************************************)
EXTENDS Integers, Sequences, FiniteSets, TLC

\* ------------------------------------------------------------------ str

Lower == <<"a","b","c","d","e","f","g","h","i","j","k","l","m",
           "n","o","p","q","r","s","t","u","v","w","x","y","z">>
Capital == <<"A","B","C","D","E","F","G","H","I","J","K","L","M",
             "N","O","P","Q","R","S","T","U","V","W","X","Y","Z">>
Digits == <<"0","1","2","3","4","5","6","7","8","9">>
\* The backtick, which a TLA+ string cannot hold, is written BT.
BT == "backtick"
Punctuation == {"{", "}", "[", "]", "\"", ":", ",", BT, "#", ">", "*", "_", "-", "+",
                ".", " ", "\n"}

Range(f) == {f[i] : i \in DOMAIN f}

\* The characters a text of the model may hold.
Alphabet == Range(Lower) \cup Range(Capital) \cup Range(Digits) \cup Punctuation

\* str.isspace() / the regex class \s, on Alphabet
StrWS == {" ", "\t", "\n", "\r"}

\* s[i:j] with 0-based Python slice bounds i <= j
Slice(s, i, j) == SubSeq(s, i + 1, IF j > Len(s) THEN Len(s) ELSE j)

\* str.strip()
strip(s) ==
  IF \A k \in 1..Len(s) : s[k] \in StrWS THEN <<>>
  ELSE LET a == CHOOSE k \in 1..Len(s) :
                   s[k] \notin StrWS /\ \A m \in 1..(k-1) : s[m] \in StrWS
           b == CHOOSE k \in 1..Len(s) :
                   s[k] \notin StrWS /\ \A m \in (k+1)..Len(s) : s[m] \in StrWS
       IN SubSeq(s, a, b)

UpperChar(c) ==
  IF \E k \in 1..26 : Lower[k] = c
    THEN Capital[CHOOSE k \in 1..26 : Lower[k] = c]
    ELSE c

\* str.upper()
upper(s) == [k \in 1..Len(s) |-> UpperChar(s[k])]

\* s.startswith(p, i) with a 0-based offset i
StartsWithAt(s, i, p) ==
  /\ i + Len(p) <= Len(s)
  /\ \A k \in 1..Len(p) : s[i + k] = p[k]

\* ----------------------------------------------------------------- json

\* json.decoder.WHITESPACE
JsonWS == {" ", "\t", "\n", "\r"}

\* WHITESPACE.match(s, end).end(): 0-based index of the first non-blank at or after end
skip_ws(s, end) ==
  CHOOSE j \in end..Len(s) :
    /\ \A k \in end..(j-1) : s[k+1] \in JsonWS
    /\ (j = Len(s) \/ s[j+1] \notin JsonWS)

\* s[end:end+1]
CharAt(s, end) == IF end < Len(s) THEN s[end + 1] ELSE ""

DigitVal(c) == (CHOOSE k \in 1..10 : Digits[k] = c) - 1
IsDigit(c) == \E k \in 1..10 : Digits[k] = c

RECURSIVE IntOf(_)
IntOf(ds) == IF ds = <<>> THEN 0
             ELSE 10 * IntOf(SubSeq(ds, 1, Len(ds) - 1)) + DigitVal(ds[Len(ds)])

RECURSIVE Pow10(_)
Pow10(n) == IF n = 0 THEN 1 ELSE 10 * Pow10(n - 1)

\* end of the maximal run of digits starting at 0-based index i
DigitsEnd(s, i) ==
  CHOOSE j \in i..Len(s) :
    /\ \A k \in i..(j-1) : IsDigit(s[k+1])
    /\ (j = Len(s) \/ ~IsDigit(s[j+1]))

Failed == [ok |-> FALSE, val |-> <<"None">>, end |-> 0]
Found(v, e) == [ok |-> TRUE, val |-> v, end |-> e]

\* dict[key] = value on an item sequence: a repeated key keeps its place, takes the new value
DictSet(items, key, value) ==
  IF \E k \in 1..Len(items) : items[k][1] = key
    THEN [k \in 1..Len(items) |->
            IF items[k][1] = key THEN <<key, value>> ELSE items[k]]
    ELSE Append(items, <<key, value>>)

\* json.decoder.py_scanstring(s, end, strict=True): end is just past the opening quote
scanstring(s, end) ==
  IF \A k \in end..(Len(s)-1) : s[k+1] \notin {"\"", "\\", "\n", "\t", "\r"}
    THEN Failed                                     \* Unterminated string
    ELSE LET j == CHOOSE k \in end..(Len(s)-1) :
                    /\ s[k+1] \in {"\"", "\\", "\n", "\t", "\r"}
                    /\ \A m \in end..(k-1) : s[m+1] \notin {"\"", "\\", "\n", "\t", "\r"}
         IN IF s[j+1] = "\"" THEN Found(Slice(s, end, j), j + 1)
            ELSE Failed                             \* Invalid control character

\* -------------------------------------------------- float(numeral)
\* A float is an IEEE 754 double. Of a decimal m * 10^x, 0 < m < 2^31 not a multiple of
\* 10, float() makes
\*   inf                         from 2^1024 - 2^970 = 1.797693134862315807...e308 on,
\*   the double nearest to it    otherwise, which repr() writes again as m * 10^x when
\*                               x >= -323: a decimal of at most 15 digits is the
\*                               shortest one of its double, and below 2^-1022, where
\*                               doubles lie 2^-1074 = 4.94...e-324 apart, so is a
\*                               multiple of 10^-323,
\*   k * 2^-1074                 when x < -323, k the integer nearest to m * 10^x * 2^1074.

\* 2^1074 * 10^-324 = 0.202402253307310618352495..., the digits after the point
UlpsPerUnit == <<2,0,2,4,0,2,2,5,3,3,0,7,3,1,0,6,1,8,3,5,2,4,9,5>>

\* 2^-1075 * 10^324 = 2.470328229206232720882843..., the digit before the point and
\* as many digits after it as UlpsPerUnit has
HalfUlp == <<2, 4,7,0,3,2,8,2,2,9,2,0,6,2,3,2,7,2,0,8,8,2,8,4,3>>

\* Both are cut off: a product of one with a natural number n < 2^31 is less than the true
\* product, by less than 2^31 * 10^-24. No true product comes that near to an integer or
\* to the middle between two integers (the least distance is above 10^-12), so the floor
\* and the nearest integer of a product taken here are those of the true product.

\* Long multiplication of n < 2^31, of at most ten digits, and c, a sequence of digits
\* most significant first: the digits of n * c, least significant first, from column p
\* on, carry coming in from column p - 1. Row i of a column is digit i of n, counted
\* from the right, times the digit of c that meets it there.
RECURSIVE Times(_, _, _, _)
Times(n, c, p, carry) ==
  LET Row(i) == IF p + 1 - i \in 1..Len(c)
                  THEN ((n \div Pow10(i - 1)) % 10) * c[Len(c) - p + i]
                  ELSE 0
  IN IF p > 10 + Len(c) THEN <<>>
     ELSE CHOOSE digits \in {
       <<t % 10>> \o Times(n, c, p + 1, t \div 10)
       : t \in {carry + Row(1) + Row(2) + Row(3) + Row(4) + Row(5)
                      + Row(6) + Row(7) + Row(8) + Row(9) + Row(10)}} : TRUE

\* floor(P / 10^d), P the digits of a product
RECURSIVE Quotient(_, _)
Quotient(P, d) == IF d >= Len(P) THEN 0 ELSE P[d + 1] + 10 * Quotient(P, d + 1)

\* the integer nearest to P / 10^d
Nearest(P, d) ==
  Quotient(P, d) + (IF d \in 1..Len(P) /\ P[d] >= 5 THEN 1 ELSE 0)

\* float of mantissa * 10^exponent, exponent < -323: the double k * 2^-1074, and its
\* repr(), the decimal of fewest digits that lies nearer to this double than to the
\* next one on either side and, of several, the nearest to it
Subnormal(sign, mantissa, exponent) ==
  IF exponent < -333 THEN <<"float", 0>>
  ELSE CHOOSE float \in {
    IF k = 0 THEN <<"float", 0>>
    ELSE CHOOSE repr \in {
      LET units == {u \in 1..9 : Quotient(above, Len(UlpsPerUnit) + u)
                                   > Quotient(below, Len(UlpsPerUnit) + u)}
          u == CHOOSE w \in units : \A v \in units : v <= w
      IN IF units # {}
           THEN <<"float", sign * Quotient(above, Len(UlpsPerUnit) + u), u - 324>>
           ELSE <<"float", sign * Nearest(Times(2 * k, HalfUlp, 1, 0),
                                          Len(UlpsPerUnit)), -324>>
      : below \in {Times(2 * k - 1, HalfUlp, 1, 0)},
        above \in {Times(2 * k + 1, HalfUlp, 1, 0)}} : TRUE
    : k \in {Nearest(Times(mantissa, UlpsPerUnit, 1, 0),
                     Len(UlpsPerUnit) - 324 - exponent)}} : TRUE

\* float(text) of a decimal numeral: the float of mantissa * 10^exponent, mantissa >= 0
RECURSIVE Decimal(_, _, _)
Decimal(negative, mantissa, exponent) ==
  IF mantissa = 0 THEN <<"float", 0>>
  ELSE IF mantissa % 10 = 0 THEN Decimal(negative, mantissa \div 10, exponent + 1)
  ELSE LET digits == CHOOSE d \in 1..10 : mantissa \div Pow10(d - 1) \in 1..9
           overflows ==          \* mantissa * 10^exponent >= 2^1024 - 2^970
             \/ exponent + digits - 1 > 308
             \/ /\ exponent + digits - 1 = 308
                /\ mantissa > 1797693134 \div Pow10(10 - digits)
       IN IF overflows THEN (IF negative THEN <<"-Infinity">> ELSE <<"Infinity">>)
          ELSE IF exponent < -323
            THEN Subnormal(IF negative THEN -1 ELSE 1, mantissa, exponent)
          ELSE IF /\ exponent >= 0
                  /\ exponent <= 9
                  /\ mantissa <= 2147483647 \div Pow10(exponent)
            THEN <<"float", (IF negative THEN -1 ELSE 1) * mantissa * Pow10(exponent)>>
          ELSE <<"float", (IF negative THEN -1 ELSE 1) * mantissa, exponent>>

\* NUMBER_RE = (-?(?:0|[1-9][0-9]*))(\.[0-9]+)?([eE][-+]?[0-9]+)?
\* end of the group (?:0|[1-9][0-9]*) that starts at the digit at start
IntEnd(s, start) ==
  IF CharAt(s, start) = "0" THEN start + 1 ELSE DigitsEnd(s, start)

\* end of the optional group (\.[0-9]+)? tried at ie
FracEnd(s, ie) ==
  IF CharAt(s, ie) = "." /\ IsDigit(CharAt(s, ie + 1)) THEN DigitsEnd(s, ie + 1) ELSE ie

\* start of the digits of an exponent whose letter is at fe
ExpDigits(s, fe) == IF CharAt(s, fe + 1) \in {"-", "+"} THEN fe + 2 ELSE fe + 1

\* end of the optional group ([eE][-+]?[0-9]+)? tried at fe
ExpEnd(s, fe) ==
  IF CharAt(s, fe) \in {"e", "E"} /\ IsDigit(CharAt(s, ExpDigits(s, fe)))
    THEN DigitsEnd(s, ExpDigits(s, fe))
    ELSE fe

\* the int or float _scan_once makes of the groups integer = s[start:ie] with its sign,
\* frac = s[ie:fe] and exp = s[fe:ee]
number(s, negative, start, ie, fe, ee) ==
  IF fe = ie /\ ee = fe
    THEN <<"int", IF negative THEN 0 - IntOf(Slice(s, start, ie))
                  ELSE IntOf(Slice(s, start, ie))>>
    ELSE Decimal(negative,
                 IF fe = ie THEN IntOf(Slice(s, start, ie))
                 ELSE IntOf(Slice(s, start, ie)) * Pow10(fe - ie - 1)
                        + IntOf(Slice(s, ie + 1, fe)),
                 (IF ee = fe THEN 0
                  ELSE IF CharAt(s, fe + 1) = "-"
                    THEN 0 - IntOf(Slice(s, ExpDigits(s, fe), ee))
                  ELSE IntOf(Slice(s, ExpDigits(s, fe), ee)))
                 - (IF fe = ie THEN 0 ELSE fe - ie - 1))

\* NUMBER_RE matched at idx, and the value of the match. A set {e : v \in {x}} binds v
\* to the value of x, as a local variable of the code holds a value computed once.
match_number(s, idx) ==
  CHOOSE m \in {
    IF ~IsDigit(CharAt(s, start)) THEN Failed
    ELSE CHOOSE m1 \in {
      CHOOSE m2 \in {
        CHOOSE m3 \in {
          Found(number(s, start > idx, start, ie, fe, ee), ee)
          : ee \in {ExpEnd(s, fe)}} : TRUE
        : fe \in {FracEnd(s, ie)}} : TRUE
      : ie \in {IntEnd(s, start)}} : TRUE
    : start \in {IF CharAt(s, idx) = "-" THEN idx + 1 ELSE idx}} : TRUE

RECURSIVE scan_once(_, _), ObjectLoop(_, _, _), ArrayLoop(_, _, _)

\* json.decoder.JSONObject from "while True:"; end is just past the quote opening a key
ObjectLoop(s, end, pairs) ==
  CHOOSE result \in {
    LET colon == IF CharAt(s, key.end) # ":" THEN skip_ws(s, key.end) ELSE key.end
    IN IF ~key.ok THEN Failed
       ELSE IF CharAt(s, colon) # ":" THEN Failed   \* Expecting ':' delimiter
       ELSE CHOOSE r \in {
         LET after == skip_ws(s, value.end)
             nextchar == CharAt(s, after)
             more == skip_ws(s, after + 1)
         IN IF ~value.ok THEN Failed                \* Expecting value
            ELSE IF nextchar = "}"
              THEN Found(<<"dict", DictSet(pairs, key.val, value.val)>>, after + 1)
            ELSE IF nextchar # "," THEN Failed      \* Expecting ',' delimiter
            ELSE IF CharAt(s, more) # "\"" THEN Failed   \* Expecting property name
            ELSE ObjectLoop(s, more + 1, DictSet(pairs, key.val, value.val))
         : value \in {scan_once(s, skip_ws(s, colon + 1))}} : TRUE
    : key \in {scanstring(s, end)}} : TRUE

\* json.decoder.JSONObject; end is just past "{"
JSONObject(s, end) ==
  LET e == IF CharAt(s, end) # "\"" THEN skip_ws(s, end) ELSE end
  IN IF CharAt(s, e) = "}" THEN Found(<<"dict", <<>>>>, e + 1)
     ELSE IF CharAt(s, e) # "\"" THEN Failed        \* Expecting property name
     ELSE ObjectLoop(s, e + 1, <<>>)

\* json.decoder.JSONArray from "while True:"; end is at the start of a value
ArrayLoop(s, end, values) ==
  CHOOSE result \in {
    LET after == skip_ws(s, value.end)
        nextchar == CharAt(s, after)
    IN IF ~value.ok THEN Failed
       ELSE IF nextchar = "]"
         THEN Found(<<"list", Append(values, value.val)>>, after + 1)
       ELSE IF nextchar # "," THEN Failed           \* Expecting ',' delimiter
       ELSE ArrayLoop(s, skip_ws(s, after + 1), Append(values, value.val))
    : value \in {scan_once(s, end)}} : TRUE

\* json.decoder.JSONArray; end is just past "["
JSONArray(s, end) ==
  LET e == skip_ws(s, end)
  IN IF CharAt(s, e) = "]" THEN Found(<<"list", <<>>>>, e + 1)
     ELSE ArrayLoop(s, e, <<>>)

\* json.scanner.py_make_scanner._scan_once
scan_once(s, idx) ==
  LET nextchar == CharAt(s, idx)
  IN IF nextchar = "" THEN Failed
     ELSE IF nextchar = "\"" THEN
       LET r == scanstring(s, idx + 1)
       IN IF r.ok THEN Found(<<"str", r.val>>, r.end) ELSE Failed
     ELSE IF nextchar = "{" THEN JSONObject(s, idx + 1)
     ELSE IF nextchar = "[" THEN JSONArray(s, idx + 1)
     ELSE IF StartsWithAt(s, idx, <<"n","u","l","l">>) THEN Found(<<"None">>, idx + 4)
     ELSE IF StartsWithAt(s, idx, <<"t","r","u","e">>) THEN Found(<<"bool", TRUE>>, idx + 4)
     ELSE IF StartsWithAt(s, idx, <<"f","a","l","s","e">>) THEN Found(<<"bool", FALSE>>, idx + 5)
     ELSE CHOOSE result \in {
       IF m.ok THEN m
       ELSE IF StartsWithAt(s, idx, <<"N","a","N">>) THEN Found(<<"NaN">>, idx + 3)
       ELSE IF StartsWithAt(s, idx, <<"I","n","f","i","n","i","t","y">>)
         THEN Found(<<"Infinity">>, idx + 8)
       ELSE IF StartsWithAt(s, idx, <<"-","I","n","f","i","n","i","t","y">>)
         THEN Found(<<"-Infinity">>, idx + 9)
       ELSE Failed
       : m \in {match_number(s, idx)}} : TRUE

\* JSONDecoder().decode(s): a value, blanks around it, nothing else
decode(s) ==
  LET r == scan_once(s, skip_ws(s, 0))
  IN IF ~r.ok THEN <<"raise", "JSONDecodeError">>
     ELSE IF skip_ws(s, r.end) # Len(s) THEN <<"raise", "JSONDecodeError">>   \* Extra data
     ELSE <<"return", r.val>>

\* json.loads(expr): the argument is evaluated, once, and then decoded
json_loads(expr) == CHOOSE outcome \in {decode(s) : s \in {expr}} : TRUE

\* ---------------------------------------------------------------- regex

Fence == <<BT, BT, BT>>

\* number of characters of \s* taken greedily at 0-based index i
BlanksAt(s, i) ==
  CHOOSE n \in 0..(Len(s) - i) :
    /\ \A k \in 1..n : s[i + k] \in StrWS
    /\ (i + n = Len(s) \/ s[i + n + 1] \notin StrWS)

\* (?:json)? under re.IGNORECASE at 0-based index i: the lengths it can take, 4 or 0
TagTakes(s, i) ==
  IF i + 4 <= Len(s) /\ upper(Slice(s, i, i + 4)) = <<"J","S","O","N">>
    THEN {4, 0} ELSE {0}

\* Every way  ```(?:json)?\s*([\s\S]*?)\s*```  matches at 0-based index i:
\* <<tag, blanks, group, blanks2>>, the lengths its four variable parts take.
FenceWays(s, i) ==
  IF ~StartsWithAt(s, i, Fence) THEN {}
  ELSE UNION { UNION { UNION {
         { <<tag, b, g, b2>> :
             b2 \in {x \in 0..BlanksAt(s, i + 3 + tag + b + g) :
                       StartsWithAt(s, i + 3 + tag + b + g + x, Fence)} }
         : g \in 0..(Len(s) - (i + 3 + tag + b)) }
         : b \in 0..BlanksAt(s, i + 3 + tag) }
         : tag \in TagTakes(s, i + 3) }

\* The backtracking order: (?:json)? greedy, \s* greedy, the group lazy, \s* greedy.
FenceBefore(v, w) ==
  \/ v[1] > w[1]
  \/ v[1] = w[1] /\ v[2] > w[2]
  \/ v[1] = w[1] /\ v[2] = w[2] /\ v[3] < w[3]
  \/ v[1] = w[1] /\ v[2] = w[2] /\ v[3] = w[3] /\ v[4] >= w[4]

\* re.search(r"```(?:json)?\s*([\s\S]*?)\s*```", text, re.IGNORECASE):
\* [found, group1], the leftmost match and there the first in backtracking order
fence_match(s) ==
  IF \A i \in 0..(Len(s) - 1) : FenceWays(s, i) = {}
    THEN [found |-> FALSE, group1 |-> <<>>]
    ELSE LET i == CHOOSE k \in 0..(Len(s) - 1) :
                    /\ FenceWays(s, k) # {}
                    /\ \A m \in 0..(k - 1) : FenceWays(s, m) = {}
             w == CHOOSE v \in FenceWays(s, i) :
                    \A u \in FenceWays(s, i) : FenceBefore(v, u)
             from == i + 3 + w[1] + w[2]
         IN [found |-> TRUE, group1 |-> Slice(s, from, from + w[3])]

\* Every length [\s\S]* can take for  \{[\s\S]*\}  to match at 0-based index i
BraceWays(s, i) ==
  IF CharAt(s, i) # "{" THEN {}
  ELSE {n \in 0..Len(s) : CharAt(s, i + 1 + n) = "}"}

\* re.search(r"\{[\s\S]*\}", text): [found, group0], leftmost, the star greedy
obj_match(s) ==
  IF \A i \in 0..(Len(s) - 1) : BraceWays(s, i) = {}
    THEN [found |-> FALSE, group0 |-> <<>>]
    ELSE LET i == CHOOSE k \in 0..(Len(s) - 1) :
                    /\ BraceWays(s, k) # {}
                    /\ \A m \in 0..(k - 1) : BraceWays(s, m) = {}
             n == CHOOSE v \in BraceWays(s, i) : \A u \in BraceWays(s, i) : v >= u
         IN [found |-> TRUE, group0 |-> Slice(s, i, i + 1 + n + 1)]

\* ------------------------------------------------------- parse_json_str

Returned(outcome) == outcome[1] = "return"
ValueError == <<"raise", "ValueError">>

\* the fenced-block try: the outcome of json.loads on the candidate, when there is a match
fence_try(t) ==
  LET fence_match_ == fence_match(t)
  IN IF fence_match_.found THEN json_loads(strip(fence_match_.group1))   \* candidate
     ELSE <<"raise", "no match">>

\* the {...} try
obj_try(t) ==
  LET obj_match_ == obj_match(t)
  IN IF obj_match_.found THEN json_loads(obj_match_.group0)
     ELSE <<"raise", "no match">>

\* as parse_stripped, a fenced candidate that does not parse raising at once
parse_stripped_strict(t) ==
  LET direct == json_loads(t)
      fenced == fence_try(t)
      braced == obj_try(t)
  IN IF Returned(direct) THEN direct
     ELSE IF fence_match(t).found THEN (IF Returned(fenced) THEN fenced ELSE ValueError)
     ELSE IF Returned(braced) THEN braced
     ELSE ValueError

\* parse_json_str after "text = text.strip()"
parse_stripped(t) ==
  LET direct == json_loads(t)
      fenced == fence_try(t)
      braced == obj_try(t)
  IN IF Returned(direct) THEN direct
     ELSE IF Returned(fenced) THEN fenced
     ELSE IF Returned(braced) THEN braced
     ELSE ValueError

parse_json_str(text_) == CHOOSE outcome \in {parse_stripped(t) : t \in {strip(text_)}} : TRUE

\* ------------------------------------------------------- Python values

None == <<"None">>
Str(s) == <<"str", s>>
EmptyDict == <<"dict", <<>>>>
EmptyList == <<"list", <<>>>>

IsDict(v) == v[1] = "dict"
IsList(v) == v[1] = "list"
IsStr(v) == v[1] = "str"

\* bool(v)
Truthy(v) ==
  CASE v[1] = "None" -> FALSE
    [] v[1] = "bool" -> v[2]
    [] v[1] \in {"int", "float"} -> v[2] # 0
    [] v[1] \in {"str", "list", "dict"} -> Len(v[2]) # 0
    [] OTHER -> TRUE

\* d.get(key, default) on a dict
Get(d, key, default) ==
  IF \E k \in 1..Len(d[2]) : d[2][k][1] = key
    THEN d[2][CHOOSE k \in 1..Len(d[2]) : d[2][k][1] = key][2]
    ELSE default

AttributeError == <<"raise", "AttributeError">>

\* x.get(key, default) on any value: only a dict has the method
get(x, key, default) ==
  IF IsDict(x) THEN <<"return", Get(x, key, default)>> ELSE AttributeError

\* ---------------------------------------------------- step_final_presenter

K_label == <<"l","a","b","e","l">>
K_tagline == <<"t","a","g","l","i","n","e">>
K_script_30s == <<"s","c","r","i","p","t","_","3","0","s">>
K_captions == <<"c","a","p","t","i","o","n","s">>
K_instagram == <<"i","n","s","t","a","g","r","a","m">>
K_x == <<"x">>
K_cta == <<"c","t","a">>
K_compliance_notes == <<"c","o","m","p","l","i","a","n","c","e","_","n","o","t","e","s">>

OptionHeading == <<"#","#","#"," ","O","p","t","i","o","n"," ">>
TaglineHeading == <<"#","#","#","#"," ">>
Quote == <<">"," ">>
CaptionsIG == <<"*","*","C","a","p","t","i","o","n","s","*","*","\n","-"," ","*","*","I","G","*","*",":"," ">>
CaptionsX == <<"\n","-"," ","*","*","X","*","*",":"," ">>
CTA == <<"*","*","C","T","A","*","*",":"," ">>
ComplianceOpen == <<"\n","\n","*","C","o","m","p","l","i","a","n","c","e"," ","N","o","t","e","s",":"," ">>
ComplianceClose == <<"*">>
NL == <<"\n">>

\* idea.get("label", "").upper() raises unless idea is a dict whose label is a str
LabelRaises(idea) == ~IsDict(idea) \/ ~IsStr(Get(idea, K_label, Str(<<>>)))

LabelOf(idea) == upper(Get(idea, K_label, Str(<<>>))[2])

\* by_label = {idea.get("label", "").upper(): idea for idea in ideas}, as dict items
RECURSIVE by_label(_)
by_label(ideas) ==
  IF ideas = <<>> THEN <<>>
  ELSE LET last == ideas[Len(ideas)]
       IN DictSet(by_label(SubSeq(ideas, 1, Len(ideas) - 1)), LabelOf(last), last)

\* as ordered, the ideas labelled A, B or C kept in the order of the list
ordered_as_given(ideas) ==
  LET known(idea) == LabelOf(idea) \in {<<"A">>, <<"B">>, <<"C">>}
  IN SelectSeq(ideas, known)

\* ordered = [by_label.get("A"), by_label.get("B"), by_label.get("C")], then the truthy ones
ordered(ideas) ==
  LET d == <<"dict", by_label(ideas)>>
      all == <<Get(d, <<"A">>, None), Get(d, <<"B">>, None), Get(d, <<"C">>, None)>>
  IN SelectSeq(all, Truthy)

\* captions = idea.get("captions", {}) or {}
CaptionsOf(idea) ==
  LET c == Get(idea, K_captions, EmptyDict)
  IN IF Truthy(c) THEN c ELSE EmptyDict

\* the body of "for idea in ordered" raises AttributeError on a .strip() of a non-str
\* or a .get() of a non-dict
SectionRaises(idea) ==
  LET captions == CaptionsOf(idea)
  IN
  \/ ~IsStr(Get(idea, K_tagline, Str(<<>>)))
  \/ ~IsStr(Get(idea, K_script_30s, Str(<<>>)))
  \/ ~IsDict(captions)
  \/ ~IsStr(Get(captions, K_instagram, Str(<<>>)))
  \/ ~IsStr(Get(captions, K_x, Str(<<>>)))
  \/ ~IsStr(Get(idea, K_cta, Str(<<>>)))
  \/ ~IsStr(Get(idea, K_compliance_notes, Str(<<>>)))

\* the f-string of one section
section(idea) ==
  LET label == LabelOf(idea)
      tagline == strip(Get(idea, K_tagline, Str(<<>>))[2])
      script_30s == strip(Get(idea, K_script_30s, Str(<<>>))[2])
      captions == CaptionsOf(idea)
      ig == strip(Get(captions, K_instagram, Str(<<>>))[2])
      xcap == strip(Get(captions, K_x, Str(<<>>))[2])
      cta == strip(Get(idea, K_cta, Str(<<>>))[2])
      compliance_notes == strip(Get(idea, K_compliance_notes, Str(<<>>))[2])
      compliance_section ==
        IF compliance_notes # <<>>
          THEN ComplianceOpen \o compliance_notes \o ComplianceClose ELSE <<>>
  IN OptionHeading \o label \o NL
     \o TaglineHeading \o tagline \o NL \o NL
     \o Quote \o script_30s \o NL \o NL
     \o CaptionsIG \o ig \o CaptionsX \o xcap \o NL \o NL
     \o CTA \o cta \o compliance_section \o NL

\* sections, the list the loop builds
sections(ideas) ==
  LET ordered_ == ordered(ideas)
  IN [k \in 1..Len(ordered_) |-> section(ordered_[k])]

\* sep.join(parts)
RECURSIVE join(_, _)
join(sep, parts) ==
  IF parts = <<>> THEN <<>>
  ELSE IF Len(parts) = 1 THEN parts[1]
  ELSE parts[1] \o sep \o join(sep, Tail(parts))

\* step_final_presenter(ideas), ideas a non-empty Python list (its value sequence)
step_final_presenter(ideas) ==
  IF \E k \in 1..Len(ideas) : LabelRaises(ideas[k]) THEN AttributeError
  ELSE IF LET ordered_ == ordered(ideas)
          IN \E k \in 1..Len(ordered_) : SectionRaises(ordered_[k])
    THEN AttributeError
  ELSE <<"return", join(<<"\n", "\n">>, sections(ideas))>>

\* ------------------------------------------------------------ get_api_key

\* st.secrets when no secrets file exists: every access raises
Unavailable == [available |-> FALSE, GEMINI_API_KEY |-> None, GOOGLE_API_KEY |-> None]

\* get_api_key(): secrets GEMINI, secrets GOOGLE, environment GEMINI, environment GOOGLE
get_api_key(secrets_, environ_) ==
  LET key1 == IF secrets_.available THEN secrets_.GEMINI_API_KEY ELSE None
      key2 == IF ~Truthy(key1) /\ secrets_.available
                THEN secrets_.GOOGLE_API_KEY ELSE key1
      key3 == IF ~Truthy(key2)
                THEN IF Truthy(environ_.GEMINI_API_KEY)
                       THEN environ_.GEMINI_API_KEY ELSE environ_.GOOGLE_API_KEY
                ELSE key2
  IN IF Truthy(key3) THEN key3[2] ELSE <<>>

\* --------------------------------------------------------- call_gemini_json

\* call_gemini_json: response is what model.generate_content does, <<"raise", class>>
\* or <<"return", response.text>> with response.text None or a str
call_gemini_json(response) ==
  IF ~Returned(response) THEN response
  ELSE parse_json_str(IF Truthy(response[2]) THEN response[2][2] ELSE <<>>)

\* ------------------------------------------------------------------ chain

K_ideas == <<"i","d","e","a","s">>
K_angles == <<"a","n","g","l","e","s">>
K_market_insights == <<"m","a","r","k","e","t","_","i","n","s","i","g","h","t","s">>
K_language == <<"l","a","n","g","u","a","g","e">>
K_tone == <<"t","o","n","e">>
English == <<"E","n","g","l","i","s","h">>

\* Each step: the payload it builds from its arguments (an outcome: building it raises
\* when .get is called on a value that is no dict), then call_gemini_json.
payload1(audience_) == <<"return", <<audience_>>>>
payload2(brief_) == <<"return", <<brief_>>>>
payload3(brief_, market_insights_) ==
  LET m == get(market_insights_, K_market_insights, EmptyDict)
  IN IF Returned(m) THEN <<"return", <<brief_, m[2]>>>> ELSE m
\* steps 4, 5 and 6: {"brief": brief, <key>: <previous>.get(<key>, [])}
payload456(brief_, previous, key) ==
  LET p == get(previous, key, EmptyList)
  IN IF Returned(p) THEN <<"return", <<brief_, p[2]>>>> ELSE p
payload7(brief_, ideas_) ==
  LET language == get(brief_, K_language, Str(English))
      tone == get(brief_, K_tone, Str(<<>>))
      p == get(ideas_, K_ideas, EmptyList)
  IN IF ~Returned(language) THEN language
     ELSE IF ~Returned(p) THEN p
     ELSE <<"return", <<language[2], tone[2], p[2]>>>>

\* a step function: its payload, then the model call
step(payload, response) ==
  IF Returned(payload) THEN call_gemini_json(response) ELSE payload

step_brief_normalizer(audience_, response) == step(payload1(audience_), response)
step_market_intelligence(brief_, response) == step(payload2(brief_), response)
step_angle_generator(brief_, market_insights_, response) ==
  step(payload3(brief_, market_insights_), response)
step_idea_writer(brief_, angles_, response) ==
  step(payload456(brief_, angles_, K_angles), response)
step_critic_improve(brief_, ideas_, response) ==
  step(payload456(brief_, ideas_, K_ideas), response)
step_compliance_check(brief_, ideas_, response) ==
  step(payload456(brief_, ideas_, K_ideas), response)
step_localize_polish(brief_, ideas_, response) == step(payload7(brief_, ideas_), response)

\* --------------------------------------------------- the model's responses

RECURSIVE Minified(_), MinifiedItems(_), MinifiedValues(_)

\* the text of a JSON value, as a model asked for minified JSON writes it
Minified(v) ==
  CASE v[1] = "dict" -> <<"{">> \o MinifiedItems(v[2]) \o <<"}">>
    [] v[1] = "list" -> <<"[">> \o MinifiedValues(v[2]) \o <<"]">>
    [] v[1] = "str" -> <<"\"">> \o v[2] \o <<"\"">>
    [] v[1] = "int" -> <<Digits[v[2] + 1]>>
    [] OTHER -> <<"n","u","l","l">>
MinifiedItems(items) ==
  IF items = <<>> THEN <<>>
  ELSE <<"\"">> \o items[1][1] \o <<"\"", ":">> \o Minified(items[1][2])
       \o (IF Len(items) > 1 THEN <<",">> \o MinifiedItems(Tail(items)) ELSE <<>>)
MinifiedValues(values) ==
  IF values = <<>> THEN <<>>
  ELSE Minified(values[1])
       \o (IF Len(values) > 1 THEN <<",">> \o MinifiedValues(Tail(values)) ELSE <<>>)

Dict1(key, value) == <<"dict", << <<key, value>> >> >>
List(values) == <<"list", values>>
Idea(label, tagline) ==
  <<"dict", << <<K_label, Str(label)>>, <<K_tagline, Str(tagline)>> >> >>
IdeaNoted(label, tagline, notes) ==
  <<"dict", << <<K_label, Str(label)>>, <<K_tagline, Str(tagline)>>,
               <<K_compliance_notes, Str(notes)>> >> >>
Angle(id) == Dict1(<<"i","d">>, Str(<<id>>))

IdeaA == Idea(<<"A">>, <<"G","o">>)
IdeaB == Idea(<<"B">>, <<"U","p">>)
IdeaC == Idea(<<"C">>, <<"O","n">>)

V_brief == <<"dict", << <<K_tone, Str(<<"b","o","l","d">>)>>,
                        <<K_language, Str(<<"A","r","a","b","i","c">>)>> >> >>
V_market == Dict1(K_market_insights, Dict1(<<"t","r","e","n","d","s">>, List(<<Str(<<"x">>)>>)))
V_angles5 == Dict1(K_angles, List(<<Angle("1"), Angle("2"), Angle("3"), Angle("4"), Angle("5")>>))
V_angles1 == Dict1(K_angles, List(<<Angle("1")>>))
V_ideasABC == Dict1(K_ideas, List(<<IdeaA, IdeaB, IdeaC>>))
V_ideasNoted == Dict1(K_ideas, List(<<IdeaNoted(<<"C">>, <<"O","n">>, <<"o","k">>),
                                      IdeaNoted(<<"B">>, <<"U","p">>, <<>>),
                                      IdeaNoted(<<"A">>, <<"G","o">>, <<"o","k">>)>>))
V_ideasA == Dict1(K_ideas, List(<<IdeaA>>))
V_ideasEmpty == Dict1(K_ideas, EmptyList)
V_ideasStr == Dict1(K_ideas, Str(<<"n","o","n","e">>))
V_ideasBlank == Dict1(K_ideas, List(<<Idea(<<"a">>, <<" ">>), Dict1(K_label, Str(<<"B">>)), IdeaC>>))
V_ideasBad == Dict1(K_ideas, List(<<<<"int", 1>>>>))

Text(chars) == <<"return", Str(chars)>>
Json(v) == Text(Minified(v))
\* the JSON in a fenced block after a line of prose
Fenced(v) ==
  Text(<<"H","e","r","e",":","\n">> \o Fence \o <<"j","s","o","n","\n">>
       \o Minified(v) \o <<"\n">> \o Fence)
TransportError == <<"raise", "TransportError">>
NoText == <<"return", None>>
Prose == Text(<<"S","o","r","r","y">>)

\* What model.generate_content may do at step n.
Responses(n) ==
  CASE n = 1 -> {TransportError, NoText, Json(V_brief), Json(EmptyList)}
    [] n = 2 -> {TransportError, Prose, Json(V_market), Json(<<"int", 1>>)}
    [] n = 3 -> {TransportError, Json(V_angles5), Json(V_angles1)}
    [] n = 4 -> {TransportError, Json(V_ideasABC), Json(V_ideasA), Json(V_ideasStr)}
    [] n = 5 -> {Prose, Json(V_ideasABC), Json(EmptyDict)}
    [] n = 6 -> {TransportError, Json(V_ideasNoted), Json(V_ideasA)}
    [] n = 7 -> {TransportError, Prose, Json(V_ideasABC), Fenced(V_ideasNoted),
                 Json(V_ideasA), Json(V_ideasEmpty), Json(V_ideasStr), Json(EmptyDict),
                 Json(V_ideasBlank), Json(V_ideasBad), Json(EmptyList)}

\* ------------------------------------------------------------------- main

Key == <<"k","e","y">>
Secrets(gemini, google) ==
  [available |-> TRUE, GEMINI_API_KEY |-> gemini, GOOGLE_API_KEY |-> google]
Environ(gemini, google) == [GEMINI_API_KEY |-> gemini, GOOGLE_API_KEY |-> google]
\* The key sources a run may find, <<st.secrets, os.environ>>: no key anywhere (unset,
\* or set to the empty string, or no secrets file), and the key in one source.
KeySources ==
  { <<Unavailable, Environ(None, None)>>,
    <<Unavailable, Environ(Str(<<>>), None)>>,
    <<Secrets(None, None), Environ(None, None)>>,
    <<Secrets(Str(<<>>), Str(<<>>)), Environ(Str(<<>>), Str(<<>>))>>,
    <<Secrets(Str(Key), None), Environ(None, None)>>,
    <<Secrets(Str(<<>>), Str(Key)), Environ(None, None)>>,
    <<Unavailable, Environ(Str(Key), None)>>,
    <<Secrets(None, None), Environ(Str(<<>>), Str(Key))>> }

\* what the user may type in the Audience field
Audiences == {<<>>, <<" ", "\n">>, <<" ","K","S","A","\n">>, <<"K"," ","S">>}

Unset == <<"unset">>

MissingKey == <<"error", "Missing API key">>
NoIdeas == <<"error", "The model returned no ideas">>
GenerationFailed(e) == <<"error", "Generation failed", e[2]>>
Markdown(chars) == <<"markdown", chars>>

VARIABLES
  pc,               \* where main is: "form", "step1" .. "step7", "present", "end"
  audience,         \* the Audience field of the form
  secrets, environ, \* st.secrets and os.environ
  final_audience, api_key, model,
  brief, market_insights, angles, ideas, improved, compliant, localized,
  steps,            \* the step functions called so far, each <<n, arguments>>
  calls,            \* the steps whose model.generate_content call was made, in order
  presented,        \* the arguments step_final_presenter was called with
  shown,            \* what st.error and st.markdown have displayed, in order
  text, parsed,     \* parse_json_str alone: its argument and its outcome
  p_ideas, rendered \* step_final_presenter alone: its argument and its outcome

locals == <<brief, market_insights, angles, ideas, improved, compliant, localized>>
inputs == <<audience, secrets, environ>>
mainVars == <<pc, inputs, final_audience, api_key, model, locals, steps, calls,
              presented, shown>>
parseVars == <<text, parsed>>
presentVars == <<p_ideas, rendered>>
vars == <<mainVars, parseVars, presentVars>>

\* final_audience = audience.strip(), or DEFAULT_AUDIENCE when that is empty
DEFAULT_AUDIENCE == <<"P","e","o","p","l","e"," ","i","n"," ","R","i","y","a","d","h",",",
                      " ","S","a","u","d","i"," ","A","r","a","b","i","a">>
\* as FinalAudience, the default forgotten
FinalAudience_stripped(audience_) == strip(audience_)

FinalAudience(audience_) ==
  IF strip(audience_) = <<>> THEN DEFAULT_AUDIENCE ELSE strip(audience_)

\* as missing, the key compared with None only
missing_none(api_key_) == api_key_ = None

\* "if not api_key"
missing(api_key_) == api_key_ = <<>>

\* as no_ideas, the length test forgotten
no_ideas_type(final_ideas) == ~IsList(final_ideas)

\* "if not isinstance(final_ideas, list) or len(final_ideas) == 0"
no_ideas(final_ideas) == ~IsList(final_ideas) \/ Len(final_ideas[2]) = 0

\* as after, the angle generator's block left out
after_skips(p) ==
  CASE p = "step1" -> "step2" [] p = "step2" -> "step4" [] p = "step3" -> "step4"
    [] p = "step4" -> "step5" [] p = "step5" -> "step6" [] p = "step6" -> "step7"
    [] p = "step7" -> "present"

\* the statement after each "with st.spinner" block of the try
after(p) ==
  CASE p = "step1" -> "step2" [] p = "step2" -> "step3" [] p = "step3" -> "step4"
    [] p = "step4" -> "step5" [] p = "step5" -> "step6" [] p = "step6" -> "step7"
    [] p = "step7" -> "present"

\* as Try, with the except inside each block: the error is shown and main goes on
Try_continues(outcome, next) ==
  /\ pc' = next
  /\ shown' = IF Returned(outcome) THEN shown ELSE Append(shown, GenerationFailed(outcome))

\* try: ... except Exception as e: st.error(f"Generation failed: {e}")
\* what a statement of the try block leads to, given its outcome
Try(outcome, next) ==
  IF Returned(outcome)
    THEN pc' = next /\ UNCHANGED shown
    ELSE pc' = "end" /\ shown' = Append(shown, GenerationFailed(outcome))

NotStarted ==
  /\ final_audience = Unset /\ api_key = Unset /\ model = Unset
  /\ brief = Unset /\ market_insights = Unset /\ angles = Unset /\ ideas = Unset
  /\ improved = Unset /\ compliant = Unset /\ localized = Unset
  /\ steps = <<>> /\ calls = <<>> /\ presented = <<>> /\ shown = <<>>

IdleParse == text = <<>> /\ parsed = Unset
IdlePresent == p_ideas = <<>> /\ rendered = Unset

\* The form as the user submits it.
Init ==
  /\ pc = "form"
  /\ audience \in Audiences
  /\ \E sources \in KeySources : secrets = sources[1] /\ environ = sources[2]
  /\ NotStarted /\ IdleParse /\ IdlePresent

\* if submitted: ... up to the try
Submit ==
  /\ pc = "form"
  /\ final_audience' = FinalAudience(audience)
  /\ api_key' = get_api_key(secrets, environ)
  /\ IF missing(api_key')
       THEN /\ shown' = Append(shown, MissingKey)     \* st.error, st.stop()
            /\ pc' = "end"
            /\ UNCHANGED model
       ELSE /\ model' = <<"GenerativeModel">>         \* init_genai, create_model
            /\ pc' = "step1"
            /\ UNCHANGED shown
  /\ UNCHANGED <<inputs, locals, steps, calls, presented, parseVars, presentVars>>

\* the model call of step n is made when the step's payload could be built
Called(n, payload) == IF Returned(payload) THEN Append(calls, n) ELSE calls

Step1 ==
  /\ pc = "step1"
  /\ \E response \in Responses(1) :
       \E out \in {step_brief_normalizer(final_audience, response)} :
          /\ steps' = Append(steps, <<1, <<final_audience>>>>)
          /\ calls' = Called(1, payload1(final_audience))
          /\ brief' = IF Returned(out) THEN out[2] ELSE brief
          /\ Try(out, after("step1"))
  /\ UNCHANGED <<inputs, final_audience, api_key, model, market_insights, angles, ideas,
                 improved, compliant, localized, presented, parseVars, presentVars>>

Step2 ==
  /\ pc = "step2"
  /\ \E response \in Responses(2) :
       \E out \in {step_market_intelligence(brief, response)} :
          /\ steps' = Append(steps, <<2, <<brief>>>>)
          /\ calls' = Called(2, payload2(brief))
          /\ market_insights' = IF Returned(out) THEN out[2] ELSE market_insights
          /\ Try(out, after("step2"))
  /\ UNCHANGED <<inputs, final_audience, api_key, model, brief, angles, ideas,
                 improved, compliant, localized, presented, parseVars, presentVars>>

Step3 ==
  /\ pc = "step3"
  /\ \E response \in Responses(3) :
       \E out \in {step_angle_generator(brief, market_insights, response)} :
          /\ steps' = Append(steps, <<3, <<brief, market_insights>>>>)
          /\ calls' = Called(3, payload3(brief, market_insights))
          /\ angles' = IF Returned(out) THEN out[2] ELSE angles
          /\ Try(out, after("step3"))
  /\ UNCHANGED <<inputs, final_audience, api_key, model, brief, market_insights, ideas,
                 improved, compliant, localized, presented, parseVars, presentVars>>

Step4 ==
  /\ pc = "step4"
  /\ \E response \in Responses(4) :
       \E out \in {step_idea_writer(brief, angles, response)} :
          /\ steps' = Append(steps, <<4, <<brief, angles>>>>)
          /\ calls' = Called(4, payload456(brief, angles, K_angles))
          /\ ideas' = IF Returned(out) THEN out[2] ELSE ideas
          /\ Try(out, after("step4"))
  /\ UNCHANGED <<inputs, final_audience, api_key, model, brief, market_insights, angles,
                 improved, compliant, localized, presented, parseVars, presentVars>>

Step5 ==
  /\ pc = "step5"
  /\ \E response \in Responses(5) :
       \E out \in {step_critic_improve(brief, ideas, response)} :
          /\ steps' = Append(steps, <<5, <<brief, ideas>>>>)
          /\ calls' = Called(5, payload456(brief, ideas, K_ideas))
          /\ improved' = IF Returned(out) THEN out[2] ELSE improved
          /\ Try(out, after("step5"))
  /\ UNCHANGED <<inputs, final_audience, api_key, model, brief, market_insights, angles,
                 ideas, compliant, localized, presented, parseVars, presentVars>>

\* as Step6, handed the idea writer's ideas instead of the critic's
Step6_stale ==
  /\ pc = "step6"
  /\ \E response \in Responses(6) :
       \E out \in {step_compliance_check(brief, ideas, response)} :
          /\ steps' = Append(steps, <<6, <<brief, ideas>>>>)
          /\ calls' = Called(6, payload456(brief, ideas, K_ideas))
          /\ compliant' = IF Returned(out) THEN out[2] ELSE compliant
          /\ Try(out, after("step6"))
  /\ UNCHANGED <<inputs, final_audience, api_key, model, brief, market_insights, angles,
                 ideas, improved, localized, presented, parseVars, presentVars>>

Step6 ==
  /\ pc = "step6"
  /\ \E response \in Responses(6) :
       \E out \in {step_compliance_check(brief, improved, response)} :
          /\ steps' = Append(steps, <<6, <<brief, improved>>>>)
          /\ calls' = Called(6, payload456(brief, improved, K_ideas))
          /\ compliant' = IF Returned(out) THEN out[2] ELSE compliant
          /\ Try(out, after("step6"))
  /\ UNCHANGED <<inputs, final_audience, api_key, model, brief, market_insights, angles,
                 ideas, improved, localized, presented, parseVars, presentVars>>

Step7 ==
  /\ pc = "step7"
  /\ \E response \in Responses(7) :
       \E out \in {step_localize_polish(brief, compliant, response)} :
          /\ steps' = Append(steps, <<7, <<brief, compliant>>>>)
          /\ calls' = Called(7, payload7(brief, compliant))
          /\ localized' = IF Returned(out) THEN out[2] ELSE localized
          /\ Try(out, after("step7"))
  /\ UNCHANGED <<inputs, final_audience, api_key, model, brief, market_insights, angles,
                 ideas, improved, compliant, presented, parseVars, presentVars>>

\* as Present, with the st.stop() of the "no ideas" branch caught by the except
Present_stop_caught ==
  /\ pc = "present"
  /\ LET final_ideas == get(localized, K_ideas, EmptyList)
     IN IF ~Returned(final_ideas)
          THEN Try(final_ideas, "end") /\ UNCHANGED presented
        ELSE IF no_ideas(final_ideas[2])
          THEN /\ shown' = shown \o <<NoIdeas, GenerationFailed(<<"raise", "StopException">>)>>
               /\ pc' = "end"
               /\ UNCHANGED presented
        ELSE \E markdown \in {step_final_presenter(final_ideas[2][2])} :
                /\ presented' = Append(presented, final_ideas[2])
                /\ IF Returned(markdown)
                     THEN pc' = "end" /\ shown' = Append(shown, Markdown(markdown[2]))
                     ELSE Try(markdown, "end")
  /\ UNCHANGED <<inputs, final_audience, api_key, model, locals, steps, calls,
                 parseVars, presentVars>>

\* final_ideas = localized.get("ideas", []) ... st.markdown(markdown)
Present ==
  /\ pc = "present"
  /\ LET final_ideas == get(localized, K_ideas, EmptyList)
     IN IF ~Returned(final_ideas)
          THEN Try(final_ideas, "end") /\ UNCHANGED presented
        ELSE IF no_ideas(final_ideas[2])
          THEN /\ shown' = Append(shown, NoIdeas)     \* st.error, st.stop()
               /\ pc' = "end"
               /\ UNCHANGED presented
        ELSE \E markdown \in {step_final_presenter(final_ideas[2][2])} :
                /\ presented' = Append(presented, final_ideas[2])
                /\ IF Returned(markdown)
                     THEN pc' = "end" /\ shown' = Append(shown, Markdown(markdown[2]))
                     ELSE Try(markdown, "end")
  /\ UNCHANGED <<inputs, final_audience, api_key, model, locals, steps, calls,
                 parseVars, presentVars>>

Next ==
  \/ Submit
  \/ Step1 \/ Step2 \/ Step3 \/ Step4 \/ Step5 \/ Step6 \/ Step7
  \/ Present

Spec == Init /\ [][Next]_vars

\* -------------------------------------------------- parse_json_str alone

\* Pieces of the texts a model writes around its JSON.
Fragments ==
  { <<"{", "\"", "a", "\"", ":", "1", "}">>, <<"[", "1", "]">>, <<"1">>,
    <<"\"", "a", "\"">>, Fence, <<"j", "s", "o", "n">>, <<"J", "s", "o", "n">>,
    <<"{">>, <<"}">>, <<"x">>, <<"-">>, <<"\n">> }

MaxParts == 4

\* the texts of at most n fragments
RECURSIVE Texts(_)
Texts(n) ==
  IF n = 0 THEN {<<>>}
  ELSE Texts(n - 1) \cup {t \o f : t \in Texts(n - 1), f \in Fragments}

\* main has not been entered
IdleMain ==
  /\ pc = "form"
  /\ audience = <<>>
  /\ secrets = Unavailable /\ environ = Environ(None, None)
  /\ NotStarted

InitParse ==
  /\ text \in Texts(MaxParts)
  /\ parsed = Unset
  /\ IdleMain /\ IdlePresent

\* parse_json_str(text)
Parse ==
  /\ parsed = Unset
  /\ parsed' = parse_json_str(text)
  /\ UNCHANGED <<text, mainVars, presentVars>>

NextParse == Parse

SpecParse == InitParse /\ [][NextParse]_vars

\* -------------------------------------------- step_final_presenter alone

\* The ideas a list handed to the presenter may hold: the three labels, a second idea
\* labelled A, a lower-case label, a label outside A, B, C, no label, a blank tagline,
\* a value that is no dict.
IdeaPool ==
  { IdeaA, IdeaB, IdeaC,
    Idea(<<"A">>, <<"H","i">>),
    Idea(<<"b">>, <<"N","o">>),
    Idea(<<"D">>, <<"O","h">>),
    Dict1(K_tagline, Str(<<"S","o">>)),
    IdeaNoted(<<"C">>, <<" ">>, <<"o","k">>),
    <<"int", 1>> }

MaxIdeas == 4

\* the lists of at most n ideas
RECURSIVE IdeaLists(_)
IdeaLists(n) ==
  IF n = 0 THEN {<<>>}
  ELSE IdeaLists(n - 1) \cup {Append(l, idea) : l \in IdeaLists(n - 1), idea \in IdeaPool}

InitPresent ==
  /\ p_ideas \in IdeaLists(MaxIdeas)
  /\ rendered = Unset
  /\ IdleMain /\ IdleParse

\* step_final_presenter(p_ideas)
Render ==
  /\ rendered = Unset
  /\ rendered' = step_final_presenter(p_ideas)
  /\ UNCHANGED <<p_ideas, mainVars, parseVars>>

NextPresent == Render

SpecPresent == InitPresent /\ [][NextPresent]_vars

\* ----------------------------------------------------------------- claims

\* the local of main that holds the result of step n
Result(n) ==
  CASE n = 1 -> brief [] n = 2 -> market_insights [] n = 3 -> angles [] n = 4 -> ideas
    [] n = 5 -> improved [] n = 6 -> compliant [] n = 7 -> localized

\* step n was invoked and raised: it left no result
Raised(n) == n <= Len(steps) /\ Result(n) = Unset

Blank(s) == \A k \in 1..Len(s) : s[k] \in StrWS

\* C1: the model calls made are steps 1, 2, ... in this order, each once and none left
\* out; the k-th step function invoked is step k, and it is invoked only once step k-1
\* has returned a parsed result.
C1_StepsInSequence ==
  /\ Len(calls) <= 7 /\ \A k \in 1..Len(calls) : calls[k] = k
  /\ Len(steps) <= 7 /\ \A k \in 1..Len(steps) : steps[k][1] = k
  /\ Len(calls) <= Len(steps)
  /\ \A k \in 2..Len(steps) : Result(k - 1) # Unset

\* all seven calls were made, in order
C1_Witness == calls = <<1, 2, 3, 4, 5, 6, 7>> /\ localized # Unset

\* C2: once a step has raised, no later step is invoked, the presenter is not called,
\* no markdown is displayed and exactly one error message, the failure message, is shown.
C2_AbortOnError ==
  \A n \in 1..7 :
    Raised(n) =>
      /\ Len(steps) = n
      /\ pc = "end"
      /\ presented = <<>>
      /\ Len(shown) = 1 /\ shown[1][1] = "error" /\ shown[1][2] = "Generation failed"

\* the model call of step 4 failed after three steps had succeeded
C2_Witness ==
  /\ Raised(4) /\ calls = <<1, 2, 3, 4>>
  /\ shown = <<GenerationFailed(TransportError)>>

\* "angles" is a list of exactly 5 entries
ValidAngles(v) ==
  /\ IsDict(v)
  /\ LET a == Get(v, K_angles, None) IN IsList(a) /\ Len(a[2]) = 5

\* a list of exactly 3 ideas with labels exactly A, B, C
ValidIdeaList(l) ==
  /\ IsList(l) /\ Len(l[2]) = 3
  /\ \A k \in 1..3 : IsDict(l[2][k])
  /\ {Get(l[2][k], K_label, None) : k \in 1..3} = {Str(<<"A">>), Str(<<"B">>), Str(<<"C">>)}

ValidIdeas(v) == IsDict(v) /\ ValidIdeaList(Get(v, K_ideas, None))

\* C3: what a step or the presenter is handed from the step before it has passed that
\* step's schema: step 4 gets 5 angles, steps 5, 6 and 7 and the presenter get 3 ideas
\* labelled A, B, C.
C3_ValidatedDownstream ==
  /\ \A k \in 1..Len(steps) :
       /\ steps[k][1] = 4 => ValidAngles(steps[k][2][2])
       /\ steps[k][1] \in {5, 6, 7} => ValidIdeas(steps[k][2][2])
  /\ \A k \in 1..Len(presented) : ValidIdeaList(presented[k])

\* C4: when the seven steps have succeeded and step 7's output, an object, has an
\* "ideas" value that is empty, missing or no list, the run ends with the "no ideas"
\* message alone and the presenter is not called.
C4_NoIdeasMessage ==
  ( /\ pc = "end" /\ Len(calls) = 7 /\ IsDict(localized)
    /\ LET v == Get(localized, K_ideas, EmptyList) IN ~IsList(v) \/ Len(v[2]) = 0 )
  => shown = <<NoIdeas>> /\ presented = <<>>

\* step 7 returned {"ideas": "none"} and the run has ended
C4_Witness ==
  /\ pc = "end" /\ Len(calls) = 7 /\ IsDict(localized)
  /\ IsStr(Get(localized, K_ideas, EmptyList))
  /\ shown = <<NoIdeas>>

\* some source holds a key: a non-empty string
Resolvable ==
  \E v \in {secrets.GEMINI_API_KEY, secrets.GOOGLE_API_KEY,
            environ.GEMINI_API_KEY, environ.GOOGLE_API_KEY} : IsStr(v) /\ v[2] # <<>>

\* C5: when no source holds a key, no model is created, no step is invoked, no model
\* call is made, and the run ends with the missing-key message alone.
C5_MissingKeyStops ==
  ~Resolvable =>
    /\ model = Unset /\ steps = <<>> /\ calls = <<>>
    /\ pc \in {"form", "end"}
    /\ pc = "end" => shown = <<MissingKey>>

\* a run without a key has ended
C5_Witness == ~Resolvable /\ pc = "end" /\ shown = <<MissingKey>> /\ api_key = <<>>

\* C10: the audience step 1 is called with is not blank; it is the default when the
\* user's audience is blank, and otherwise the user's audience without the blanks
\* around it.
C10_AudienceNeverBlank ==
  Len(steps) >= 1 =>
    LET passed == steps[1][2][1]
    IN /\ ~Blank(passed)
       /\ IF Blank(audience) THEN passed = DEFAULT_AUDIENCE
          ELSE /\ passed[1] \notin StrWS /\ passed[Len(passed)] \notin StrWS
               /\ \E i \in 0..Len(audience) :
                    /\ i + Len(passed) <= Len(audience)
                    /\ SubSeq(audience, i + 1, i + Len(passed)) = passed
                    /\ Blank(SubSeq(audience, 1, i))
                    /\ Blank(SubSeq(audience, i + Len(passed) + 1, Len(audience)))

\* step 1 was called for a user who typed blanks only
C10_Witness ==
  /\ Len(steps) >= 1 /\ audience # <<>> /\ Blank(audience)
  /\ steps[1][2][1] = DEFAULT_AUDIENCE

Min(S) == CHOOSE x \in S : \A y \in S : x <= y
Max(S) == CHOOSE x \in S : \A y \in S : x >= y

\* the lines of a text, in order
Lines(md) ==
  LET starts(k) == k = 1 \/ md[k - 1] = "\n"
      first == SelectSeq([k \in 1..Len(md) |-> k], starts)
      last(k) == Min({j \in k..(Len(md) + 1) : j = Len(md) + 1 \/ md[j] = "\n"}) - 1
  IN [n \in 1..Len(first) |-> SubSeq(md, first[n], last(first[n]))]

IsOptionHeading(line) == StartsWithAt(line, 0, OptionHeading)

\* the labels of the "### Option" headings of a text, in order
HeadingLabels(md) ==
  LET headings == SelectSeq(Lines(md), IsOptionHeading)
  IN [n \in 1..Len(headings) |->
        SubSeq(headings[n], Len(OptionHeading) + 1, Len(headings[n]))]

\* every "### Option" heading is followed by a "#### " line with a tagline on it
TaglinesFollow(md) ==
  LET lines == Lines(md)
  IN \A n \in 1..Len(lines) :
       IsOptionHeading(lines[n]) =>
         /\ n < Len(lines)
         /\ StartsWithAt(lines[n + 1], 0, TaglineHeading)
         /\ ~Blank(SubSeq(lines[n + 1], Len(TaglineHeading) + 1, Len(lines[n + 1])))

ABC == << <<"A">>, <<"B">>, <<"C">> >>

\* C8: every markdown a run displays has exactly three "### Option" headings, A, B and
\* C, each followed by a tagline line that is not empty.
C8_ThreeOptions ==
  \A k \in 1..Len(shown) :
    shown[k][1] = "markdown" =>
      HeadingLabels(shown[k][2]) = ABC /\ TaglinesFollow(shown[k][2])

\* the fenced blocks of t open at the 0-based indexes where a fence stands that has
\* another fence after it
FenceOpens(t) ==
  {i \in 0..Len(t) : /\ StartsWithAt(t, i, Fence)
                     /\ \E j \in (i + 3)..Len(t) : StartsWithAt(t, j, Fence)}

\* the interior of the first fenced block: from behind the opening fence and its
\* optional json tag to the next fence, trimmed
FirstFenceInterior(t) ==
  LET open == Min(FenceOpens(t))
      tagged == /\ open + 7 <= Len(t)
                /\ upper(SubSeq(t, open + 4, open + 7)) = <<"J","S","O","N">>
      from == IF tagged THEN open + 7 ELSE open + 3
      close == Min({j \in from..Len(t) : StartsWithAt(t, j, Fence)})
  IN strip(SubSeq(t, from + 1, close))

\* t has a "{" with a "}" after it
HasBraces(t) == \E i, j \in 1..Len(t) : i < j /\ t[i] = "{" /\ t[j] = "}"

\* the substring from the first "{" to the last "}"
FirstToLastBrace(t) ==
  SubSeq(t, Min({i \in 1..Len(t) : t[i] = "{"}), Max({j \in 1..Len(t) : t[j] = "}"}))

Strategy1(t) == json_loads(t)
Strategy2(t) ==
  IF FenceOpens(t) # {} THEN json_loads(FirstFenceInterior(t)) ELSE <<"raise", "no block">>
Strategy3(t) ==
  IF HasBraces(t) THEN json_loads(FirstToLastBrace(t)) ELSE <<"raise", "no braces">>

\* C6: parse_json_str returns what the first of the three strategies that parses
\* returns - the trimmed text, the interior of the first fenced block, the substring
\* from the first "{" to the last "}" - and raises ValueError exactly when none parses.
C6_FirstStrategyThatParses ==
  parsed # Unset =>
    LET t == strip(text)
    IN /\ parsed = ( IF Returned(Strategy1(t)) THEN Strategy1(t)
                     ELSE IF Returned(Strategy2(t)) THEN Strategy2(t)
                     ELSE IF Returned(Strategy3(t)) THEN Strategy3(t)
                     ELSE ValueError )
       /\ ~Returned(parsed) <=>
            ~Returned(Strategy1(t)) /\ ~Returned(Strategy2(t)) /\ ~Returned(Strategy3(t))

\* the text does not parse, its fenced block does not parse, its braces do
C6_Witness ==
  /\ parsed # Unset /\ Returned(parsed)
  /\ ~Returned(Strategy1(strip(text)))
  /\ FenceOpens(strip(text)) # {} /\ ~Returned(Strategy2(strip(text)))
  /\ parsed = Strategy3(strip(text))

\* C7: parse_json_str returns a JSON object or raises; it returns no list, string,
\* number, boolean or null.
C7_ObjectOrFailure == parsed # Unset /\ Returned(parsed) => IsDict(parsed[2])

\* an idea of the list carries the label, as written
Carries(label) ==
  \E k \in 1..Len(p_ideas) :
    IsDict(p_ideas[k]) /\ Get(p_ideas[k], K_label, Str(<<>>)) = Str(label)

\* an idea of the list carries the label in upper or lower case
CarriesAnyCase(label) ==
  \E k \in 1..Len(p_ideas) :
    /\ IsDict(p_ideas[k]) /\ IsStr(Get(p_ideas[k], K_label, Str(<<>>)))
    /\ upper(Get(p_ideas[k], K_label, Str(<<>>))[2]) = label

\* C9 as claimed: the sections of the rendered text are those of the labels among A, B,
\* C that an idea carries, one each, in the order A, B, C; an idea with any other label
\* has no section.
C9_SectionsByLabel ==
  rendered # Unset /\ Returned(rendered) =>
    HeadingLabels(rendered[2]) = SelectSeq(ABC, Carries)

\* C9 as amended: the same, the label of an idea being its "label" in upper case.
C9_SectionsByUpperLabel ==
  rendered # Unset /\ Returned(rendered) =>
    HeadingLabels(rendered[2]) = SelectSeq(ABC, CarriesAnyCase)

\* a list with label A and a lower-case b, rendered as the sections A and B
C9_Witness ==
  /\ rendered # Unset /\ Returned(rendered)
  /\ Len(p_ideas) = 3 /\ ~Carries(<<"B">>) /\ CarriesAnyCase(<<"B">>)
  /\ HeadingLabels(rendered[2]) = << <<"A">>, <<"B">> >>

\* the results of the steps that have returned stay as they were returned
ResultsKept == \A n \in 1..7 : Result(n) # Unset => Result(n)' = Result(n)

\* what the steps invoked so far were handed: the brief step 1 returned, to each of
\* steps 2 to 7, and the result of step k-1, as its other argument, to step k of 3 to 7
HandedDown ==
  \A k \in 2..Len(steps) :
    /\ steps[k][2][1] = Result(1)
    /\ k >= 3 => steps[k][2][2] = Result(k - 1)

\* C11: every step from 2 on is handed the brief step 1 returned, every step from 3 on
\* is handed, besides it, the object the step before it returned, and no step changes
\* the brief or an earlier step's result.
C11_OutputsThreaded == [](HandedDown) /\ [][ResultsKept]_vars

\* all seven steps have run, the critic having changed the ideas it was given
C11_Witness == Len(steps) = 7 /\ localized # Unset /\ improved # ideas

\* one of the three error messages
IsError(message) ==
  \/ message = MissingKey
  \/ message = NoIdeas
  \/ message[1] = "error" /\ message[2] = "Generation failed"

IsRendered(message) == message[1] = "markdown"

\* C12: a run that has ended has displayed exactly one thing, an error message or the
\* presenter's text; a run that has not ended has displayed nothing yet.
C12_OneOutcome ==
  /\ pc = "end" => Len(shown) = 1 /\ (IsError(shown[1]) \/ IsRendered(shown[1]))
  /\ pc # "end" => shown = <<>>

\* a run has ended with the presenter's text and nothing else
C12_Witness ==
  /\ pc = "end" /\ Len(shown) = 1 /\ IsRendered(shown[1])
  /\ Len(presented) = 1 /\ shown[1][2] # <<>>
====
